---- MODULE Spec2Model ----
(***************************************************************************)
(* Desgue/codegraph: the package load pipeline (parser.Load and            *)
(* deduplicatePackages), the directory resolver (path.NewTargetDirectory)  *)
(* and the command line front end (cli.NewParseCommand, Execute, main).    *)
(*                                                                         *)
(* Strings the code inspects byte by byte (import paths) are sequences of  *)
(* byte values, so that strings.HasSuffix and the < of Go strings are      *)
(* computed, not assumed.                                                  *)
(***************************************************************************)
EXTENDS Integers, Sequences, FiniteSets, TLC

\* ------------------------------------------------------------------ bounds
\* Longest engine result (number of package records packages.Load returns).
MaxPkgs == 2
\* The number of embedded errors of a package record that has any.
MaxErrs == 2

\* ------------------------------------------------------------ import paths
\* "a", "b", "a.test", "atest" as byte sequences.
PathA == <<97>>
PathB == <<98>>
PathADotTest == <<97, 46, 116, 101, 115, 116>>
PathATest == <<97, 116, 101, 115, 116>>
PkgPaths == {PathA, PathB, PathADotTest, PathATest}

\* The literal ".test" of strings.HasSuffix(pkg.PkgPath, ".test").
TestSuffix == <<46, 116, 101, 115, 116>>

\* File names a package record may list in GoFiles: 1 is a production
\* file (main.go), 2 a test file (main_test.go).
Files == {1, 2}

\* strings.HasSuffix(s, suffix)
HasSuffix(s, suffix) ==
    /\ Len(s) >= Len(suffix)
    /\ SubSeq(s, Len(s) - Len(suffix) + 1, Len(s)) = suffix

\* Go's s < t on strings: byte-wise lexicographic order.
StrLess(s, t) ==
    \E i \in 1..(Len(t)) :
        /\ \A j \in 1..(i - 1) : j <= Len(s) /\ s[j] = t[j]
        /\ \/ i > Len(s)
           \/ i <= Len(s) /\ s[i] < t[i]

\* ------------------------------------------------------- package records
\* The file lists a record may carry: production only, test only, both.
GoFileLists == (SUBSET Files) \ {{}}

\* The numbers of embedded errors a record may carry: none, or MaxErrs.
ErrorCounts == {0, MaxErrs}

\* *packages.Package as far as the pipeline reads it: PkgPath, GoFiles
\* (a list without repetitions, kept as the set of its elements, so that
\* len(GoFiles) is its cardinality) and the number of entries of Errors.
Package == [PkgPath : PkgPaths, GoFiles : GoFileLists, Errors : ErrorCounts]

\* Every slice of at most n package records.
RECURSIVE SeqsUpTo(_, _)
SeqsUpTo(S, n) ==
    IF n = 0 THEN {<< >>}
    ELSE LET shorter == SeqsUpTo(S, n - 1)
         IN  shorter \cup {Append(s, x) : s \in {t \in shorter : Len(t) = n - 1}, x \in S}

\* What packages.Load can hand back when it does not fail.
EngineResults == SeqsUpTo(Package, MaxPkgs)

\* All orders in which the elements of a finite set can be listed.
Orderings(S) ==
    {f \in [1..Cardinality(S) -> S] : \A i, j \in DOMAIN f : f[i] = f[j] => i = j}

\* All rearrangements of a slice.
Rearrangements(s) ==
    {[i \in 1..Len(s) |-> s[p[i]]] : p \in Orderings(1..Len(s))}

\* ---------------------------------------------------- packages.PrintErrors
\* packages.PrintErrors(pkgs): one line per embedded error of every record
\* it is given; the return value is the number of lines printed (Load's doc
\* comment describes it as the number of packages with errors; Execute
\* reports it as "parse errors").
RECURSIVE PrintErrors(_)
PrintErrors(pkgs) ==
    IF pkgs = << >> THEN 0
    ELSE Head(pkgs).Errors + PrintErrors(Tail(pkgs))

\* ---------------------------------------------------- deduplicatePackages
\* strings.HasSuffix(pkg.PkgPath, ".test")
IsSyntheticNever(pkg) == FALSE

IsSyntheticWithoutDot(pkg) == HasSuffix(pkg.PkgPath, Tail(TestSuffix))

IsSyntheticExactly(pkg) == pkg.PkgPath = TestSuffix

IsSynthetic(pkg) == HasSuffix(pkg.PkgPath, TestSuffix)

\* len(pkg.GoFiles) > len(existing.GoFiles)
HasMoreFilesReversed(pkg, existing) ==
    Cardinality(pkg.GoFiles) < Cardinality(existing.GoFiles)

HasMoreFilesOrEqual(pkg, existing) ==
    Cardinality(pkg.GoFiles) >= Cardinality(existing.GoFiles)

HasMoreFiles(pkg, existing) ==
    Cardinality(pkg.GoFiles) > Cardinality(existing.GoFiles)

\* The map seen after one more iteration of "for _, pkg := range pkgs".
SeenStepSkippingBroken(seen, pkg) ==
    IF IsSynthetic(pkg) \/ pkg.Errors > 0 THEN seen
    ELSE IF pkg.PkgPath \in DOMAIN seen
         THEN IF HasMoreFiles(pkg, seen[pkg.PkgPath])
              THEN [seen EXCEPT ![pkg.PkgPath] = pkg]
              ELSE seen
         ELSE [k \in DOMAIN seen \cup {pkg.PkgPath} |->
                  IF k = pkg.PkgPath THEN pkg ELSE seen[k]]

SeenStepMergingFiles(seen, pkg) ==
    IF IsSynthetic(pkg) THEN seen
    ELSE IF pkg.PkgPath \in DOMAIN seen
         THEN [seen EXCEPT ![pkg.PkgPath].GoFiles = @ \cup pkg.GoFiles]
         ELSE [k \in DOMAIN seen \cup {pkg.PkgPath} |->
                  IF k = pkg.PkgPath THEN pkg ELSE seen[k]]

SeenStep(seen, pkg) ==
    IF IsSynthetic(pkg) THEN seen
    ELSE IF pkg.PkgPath \in DOMAIN seen
         THEN IF HasMoreFiles(pkg, seen[pkg.PkgPath])
              THEN [seen EXCEPT ![pkg.PkgPath] = pkg]
              ELSE seen
         ELSE [k \in DOMAIN seen \cup {pkg.PkgPath} |->
                  IF k = pkg.PkgPath THEN pkg ELSE seen[k]]

\* The map seen after the first n records of pkgs.
RECURSIVE SeenAfter(_, _)
SeenAfter(pkgs, n) ==
    IF n = 0 THEN [k \in {} |-> k]
    ELSE SeenStep(SeenAfter(pkgs, n - 1), pkgs[n])

\* "for _, pkg := range seen { result = append(result, pkg) }": the values
\* of the map, in any order.
Collect(seen) ==
    {[i \in 1..Len(o) |-> seen[o[i]]] : o \in Orderings(DOMAIN seen)}

\* The slices deduplicatePackages can return: the values of seen, in any
\* order ("for _, pkg := range seen" iterates a map).
DeduplicateKeepingAll(pkgs) == Rearrangements(pkgs)

Deduplicate(pkgs) == Collect(SeenAfter(pkgs, Len(pkgs)))

\* --------------------------------------------------------------- sort.Slice
\* The comparison Load hands to sort.Slice.
LessByPkgPathDescending(x, y) == StrLess(y.PkgPath, x.PkgPath)

LessByGoFilesCount(x, y) == Cardinality(x.GoFiles) < Cardinality(y.GoFiles)

LessByPkgPath(x, y) == StrLess(x.PkgPath, y.PkgPath)

\* sort.Slice is not stable: any rearrangement in which no element is
\* less than its predecessor.
SortSliceNoOp(s) == {s}

SortSlice(s) ==
    {q \in Rearrangements(s) :
        \A i \in 1..(Len(q) - 1) : ~LessByPkgPath(q[i + 1], q[i])}

\* ------------------------------------------------------------ packages.Load
\* What one call of packages.Load(cfg, "./...") can yield: an error and no
\* packages, or package records and no error.
EngineOutcomes ==
    {[err |-> TRUE, pkgs |-> << >>]}
        \cup {[err |-> FALSE, pkgs |-> r] : r \in EngineResults}

\* "if err != nil" after packages.Load.
HardFailureOnNoPackages(outcome) == outcome.err \/ outcome.pkgs = << >>

HardFailureOnEmbeddedErrors(outcome) ==
    outcome.err \/ \E i \in DOMAIN outcome.pkgs : outcome.pkgs[i].Errors > 0

HardFailure(outcome) == outcome.err

\* The failure count of "return deduplicated, errorCount, nil".
RecomputedFailureCount(count, result) == PrintErrors(result)

CountOfReturnedPackagesWithErrors(count, result) ==
    Cardinality({i \in DOMAIN result : result[i].Errors > 0})

ReturnedFailureCount(count, result) == count

\* -------------------------------------------------------------- file system
\* A string that is split at separators (a path, a command line argument) is
\* the sequence of its lexemes: "/proj/main.go" is <<"/", "proj", "/",
\* "main.go">> and "" is << >>. A location in the file system is the sequence
\* of names from the root: /proj/main.go is <<"proj", "main.go">>.
Slash == "/"

\* The tree the resolver runs against. search is the x permission of a
\* directory and read its r permission; no chain of links is cyclic.
Dir(read, search) == [kind |-> "dir", target |-> << >>, read |-> read, search |-> search]

File == [kind |-> "file", target |-> << >>, read |-> TRUE, search |-> FALSE]

Link(target) == [kind |-> "link", target |-> target, read |-> TRUE, search |-> TRUE]

Tree(lockedSearch) ==
    (<< >> :> Dir(TRUE, TRUE))
        @@ (<<"proj">> :> Dir(TRUE, TRUE))
        @@ (<<"proj", "main.go">> :> File)
        @@ (<<"proj", "sub">> :> Dir(TRUE, TRUE))
        @@ (<<"link">> :> Link(<<"proj">>))
        @@ (<<"flink">> :> Link(<<"proj", "main.go">>))
        @@ (<<"dangling">> :> Link(<<"gone">>))
        @@ (<<"locked">> :> Dir(FALSE, lockedSearch))
        @@ (<<"locked", "sub">> :> Dir(TRUE, TRUE))

FileSystems == {Tree(FALSE), Tree(TRUE)}

\* The arguments NewTargetDirectory is called with.
InputPaths ==
    { << >>,
      <<"sub">>, <<"main.go">>, <<"gone">>,
      <<Slash, "proj">>, <<Slash, "proj", Slash, "sub">>,
      <<Slash, "proj", Slash, "main.go">>,
      <<Slash, "proj", Slash, "main.go", Slash, "x">>,
      <<Slash, "link">>, <<Slash, "link", Slash, "sub">>, <<Slash, "flink">>,
      <<Slash, "gone">>, <<Slash, "gone", Slash, "sub">>, <<Slash, "dangling">>,
      <<Slash, "locked">>, <<Slash, "locked", Slash, "sub">> }

\* The working directory of the process: the path it was entered by
\* (possibly through a symbolic link, as $PWD reports it, possibly below a
\* directory that cannot be searched), or a directory that no longer exists,
\* for which os.Getwd fails.
WorkingDirectories ==
    { [ok |-> TRUE, path |-> <<Slash, "proj">>],
      [ok |-> TRUE, path |-> <<Slash, "link">>],
      [ok |-> TRUE, path |-> <<Slash, "locked", Slash, "sub">>],
      [ok |-> FALSE, path |-> << >>] }

\* filepath.IsAbs
IsAbs(path) == Len(path) > 0 /\ path[1] = Slash

\* The names of a path, without the separators.
RECURSIVE Names(_)
Names(path) ==
    IF path = << >> THEN << >>
    ELSE IF Head(path) = Slash THEN Names(Tail(path))
    ELSE <<Head(path)>> \o Names(Tail(path))

\* The absolute path string of a location: "/" before every name.
RECURSIVE PathString(_)
PathString(names) ==
    IF names = << >> THEN << >>
    ELSE <<Slash, Head(names)>> \o PathString(Tail(names))

\* The kernel's walk from the location dest along the names rest, following
\* every symbolic link: the errno and, when it is "ok", the location reached
\* and its node. os.Lstat on each component (filepath.EvalSymlinks) and
\* os.Stat give the outcome of this walk.
RECURSIVE Walk(_, _, _)
Walk(fsys, dest, rest) ==
    IF rest = << >>
    THEN [errno |-> "ok", at |-> dest, node |-> fsys[dest]]
    ELSE LET here == fsys[dest]
             next == Append(dest, Head(rest))
             failed(e) == [errno |-> e, at |-> next, node |-> File]
         IN  IF here.kind # "dir" THEN failed("ENOTDIR")
             ELSE IF ~here.search THEN failed("EACCES")
             ELSE IF next \notin DOMAIN fsys THEN failed("ENOENT")
             ELSE IF fsys[next].kind = "link"
                  THEN Walk(fsys, << >>, fsys[next].target \o Tail(rest))
                  ELSE Walk(fsys, next, Tail(rest))

\* filepath.EvalSymlinks(path): the errno of the walk and, when it is "ok",
\* the path of the location reached, with no symbolic link left in it.
EvalSymlinksCleanOnly(fsys, path) ==
    [errno |-> Walk(fsys, << >>, Names(path)).errno, path |-> PathString(Names(path))]

EvalSymlinksLenient(fsys, path) ==
    [errno |-> "ok", path |-> PathString(Names(path))]

EvalSymlinks(fsys, path) ==
    LET walk == Walk(fsys, << >>, Names(path))
    IN  [errno |-> walk.errno, path |-> PathString(walk.at)]

\* The two paths name the same directory.
SameDirectory(fsys, p, q) ==
    \/ p = q
    \/ /\ Walk(fsys, << >>, Names(p)).errno = "ok"
       /\ Walk(fsys, << >>, Names(q)).errno = "ok"
       /\ Walk(fsys, << >>, Names(p)).at = Walk(fsys, << >>, Names(q)).at

\* os.Getwd for a process whose working directory is wd: "If the current
\* directory can be reached via multiple paths (due to symbolic links),
\* Getwd may return any one of them"; a failure stays a failure.
Getwd(fsys, wd) ==
    IF ~wd.ok THEN {wd}
    ELSE {w \in WorkingDirectories : w.ok /\ SameDirectory(fsys, w.path, wd.path)}

\* An error value: its kind (which fmt.Errorf built it), the path its text
\* embeds and the errno of the error it wraps.
NoError == [kind |-> "nil", path |-> << >>, errno |-> "ok"]

Error(kind, path, errno) == [kind |-> kind, path |-> path, errno |-> errno]

\* A *TargetDirectory.
NilTargetDirectory == [isNil |-> TRUE, Path |-> << >>]

\* resolvedPath before canonicalization: the working directory for the empty
\* input, filepath.Abs(inputPath) otherwise.
ResolvedPathEmptyAsRoot(wd, inputPath) ==
    IF inputPath = << >> THEN << >>
    ELSE IF IsAbs(inputPath) THEN PathString(Names(inputPath))
    ELSE wd.path \o PathString(Names(inputPath))

ResolvedPath(wd, inputPath) ==
    IF inputPath = << >> THEN wd.path
    ELSE IF IsAbs(inputPath) THEN PathString(Names(inputPath))
    ELSE wd.path \o PathString(Names(inputPath))

\* NewTargetDirectory up to and including filepath.EvalSymlinks: the
\* canonical path, or the error it returns.
Canonicalize(fsys, wd, inputPath) ==
    IF inputPath = << >> /\ ~wd.ok
    THEN [err |-> Error("failed to get current directory", << >>, "ENOENT"), path |-> << >>]
    ELSE IF inputPath # << >> /\ ~IsAbs(inputPath) /\ ~wd.ok
    THEN [err |-> Error("failed to resolve path", inputPath, "ENOENT"), path |-> << >>]
    ELSE LET resolvedPath == ResolvedPath(wd, inputPath)
             canonical == EvalSymlinks(fsys, resolvedPath)
         IN  IF canonical.errno # "ok"
             THEN [err |-> Error("failed to resolve symlinks for", resolvedPath, canonical.errno),
                   path |-> << >>]
             ELSE [err |-> NoError, path |-> canonical.path]

\* TargetDirectory.Validate: os.Stat(td.Path) and the checks on its result.
ValidateWithoutIsDir(fsys, path) ==
    LET stat == Walk(fsys, << >>, Names(path))
    IN  IF stat.errno = "ENOENT" THEN Error("directory does not exist", path, "ENOENT")
        ELSE IF stat.errno = "EACCES" THEN Error("permission denied accessing", path, "EACCES")
        ELSE IF stat.errno # "ok" THEN Error("error accessing", path, stat.errno)
        ELSE NoError

Validate(fsys, path) ==
    LET stat == Walk(fsys, << >>, Names(path))
    IN  IF stat.errno = "ENOENT" THEN Error("directory does not exist", path, "ENOENT")
        ELSE IF stat.errno = "EACCES" THEN Error("permission denied accessing", path, "EACCES")
        ELSE IF stat.errno # "ok" THEN Error("error accessing", path, stat.errno)
        ELSE IF stat.node.kind # "dir" THEN Error("is a file, not a directory", path, "ok")
        ELSE NoError

\* ------------------------------------------------------------ command line
\* A command line argument is the sequence of its lexemes: "--output=x" is
\* <<"-", "-", "output", "=", "x">>.
Dash == "-"
Equals == "="

\* The arguments after "parse" the model draws from.
ArgPool ==
    { <<Dash, Dash, "output">>,
      <<Dash, Dash, "output", Equals, "graph.json">>,
      <<Dash, Dash, "output", Equals>>,
      <<Dash, Dash, "include-tests">>,
      <<Dash, Dash, "include-tests", Equals, "false">>,
      <<Dash, Dash, "include-tests", Equals, "maybe">>,
      <<Dash, Dash, "help">>,
      <<Dash, Dash, "bogus">>,
      <<"graph.json">>,
      <<Slash, "proj">>,
      <<Slash, "gone">>,
      <<Slash, "proj", Slash, "main.go">> }

\* The default of flagSet.Bool("include-tests", true, ...).
IncludeTestsDefault == TRUE

\* strconv.ParseBool, which flag uses to set a boolean flag.
ParseBool(value) ==
    IF value \in {<<"1">>, <<"t">>, <<"T">>, <<"TRUE">>, <<"true">>, <<"True">>}
    THEN [ok |-> TRUE, value |-> TRUE]
    ELSE IF value \in {<<"0">>, <<"f">>, <<"F">>, <<"FALSE">>, <<"false">>, <<"False">>}
    THEN [ok |-> TRUE, value |-> FALSE]
    ELSE [ok |-> FALSE, value |-> FALSE]

\* The position of the first "=" in name, or 0.
FirstEquals(name) ==
    IF \E i \in DOMAIN name : name[i] = Equals
    THEN CHOOSE i \in DOMAIN name :
             name[i] = Equals /\ \A j \in 1..(i - 1) : name[j] # Equals
    ELSE 0

\* flagSet.Parse(args) of the "parse" flag set (flag.ContinueOnError): the
\* loop over parseOne. output and includeTests are the flag values so far.
\* The result: the error, the flag values, the arguments left (flagSet.Args)
\* and whether the usage text was printed.
RECURSIVE FlagParse(_, _, _)
FlagParse(args, output, includeTests) ==
    LET result(err, rest, usage) ==
            [err |-> err, output |-> output, includeTests |-> includeTests,
             rest |-> rest, usage |-> usage]
    IN  IF args = << >> THEN result(NoError, << >>, FALSE)
        ELSE
        LET s == Head(args)
        IN  IF Len(s) < 2 \/ s[1] # Dash THEN result(NoError, args, FALSE)
            ELSE
            LET numMinuses == IF s[2] = Dash THEN 2 ELSE 1
                spelled == SubSeq(s, numMinuses + 1, Len(s))
            IN  IF numMinuses = 2 /\ Len(s) = 2 THEN result(NoError, Tail(args), FALSE)
                ELSE IF spelled = << >> \/ spelled[1] = Dash \/ spelled[1] = Equals
                THEN result(Error("bad flag syntax", s, "ok"), Tail(args), TRUE)
                ELSE
                LET eq == FirstEquals(spelled)
                    hasValue == eq > 0
                    name == IF hasValue THEN SubSeq(spelled, 1, eq - 1) ELSE spelled
                    value == IF hasValue THEN SubSeq(spelled, eq + 1, Len(spelled)) ELSE << >>
                IN  IF name = <<"include-tests">>
                    THEN IF hasValue
                         THEN IF ParseBool(value).ok
                              THEN FlagParse(Tail(args), output, ParseBool(value).value)
                              ELSE result(Error("invalid boolean value", value, "ok"),
                                          Tail(args), TRUE)
                         ELSE FlagParse(Tail(args), output, TRUE)
                    ELSE IF name = <<"output">>
                    THEN IF hasValue
                         THEN FlagParse(Tail(args), value, includeTests)
                         ELSE IF Len(args) > 1
                         THEN FlagParse(Tail(Tail(args)), args[2], includeTests)
                         ELSE result(Error("flag needs an argument", name, "ok"),
                                     Tail(args), TRUE)
                    ELSE IF name \in {<<"help">>, <<"h">>}
                    THEN result(Error("flag: help requested", << >>, "ok"), Tail(args), TRUE)
                    ELSE result(Error("flag provided but not defined", name, "ok"),
                                Tail(args), TRUE)

\* ParseCommand.Validate
ValidateCommandAcceptingEmpty(outputFile) == NoError

ValidateCommand(outputFile) ==
    IF outputFile = << >>
    THEN Error("--output flag requires a file path", << >>, "ok")
    ELSE NoError

\* A *ParseCommand.
NilParseCommand ==
    [isNil |-> TRUE, TargetDirectory |-> NilTargetDirectory, OutputFile |-> << >>,
     IncludeTests |-> FALSE]

\* ------------------------------------------------------------------- state
VARIABLES
    includeTests,   \* Load's includeTests argument (cfg.Tests)
    pc,             \* where the invocation of Load stands
    pkgs,           \* Load's local pkgs: the records packages.Load returned
    err,            \* Load's local err: TRUE when packages.Load failed
    errorCount,     \* Load's local errorCount
    printed,        \* diagnostic lines PrintErrors wrote to stderr in this invocation
    deduplicated,   \* Load's local deduplicated
    steps,          \* the steps this invocation has executed, in order
    ret,            \* what Load returned: (packages, failure count, error)
    run,            \* 1 for the first invocation on the directory, 2 for the second
    prev,           \* the engine result and the return value of the first invocation
    fs,             \* the file system
    cwd,            \* the working directory as the process entered it, or its loss
    inputPath,      \* NewTargetDirectory's argument
    pathPc,         \* where the call of NewTargetDirectory stands
    canonicalPath,  \* NewTargetDirectory's local canonicalPath
    targetDirectory,\* the *TargetDirectory NewTargetDirectory returned
    tdErr,          \* the error NewTargetDirectory returned
    prevResolution, \* what an earlier call of NewTargetDirectory on the same input returned
    osArgs,         \* os.Args
    cliPc,          \* where main stands
    flags,          \* the flag values after flagSet.Parse
    parseCommand,   \* the *ParseCommand NewParseCommand returned
    cmdErr,         \* the error main got from NewParseCommand or Execute
    stderr,         \* what main and the flag package wrote to os.Stderr
    exitCode,       \* the exit status of the process, -1 while it runs
    calls,          \* the locals of each of two concurrent invocations of Load
    seenMaps        \* the maps deduplicatePackages has made, by the invocation that owns them

loadVars == <<includeTests, pc, pkgs, err, errorCount, printed, deduplicated, steps, ret, run, prev>>

pathVars == <<fs, cwd, inputPath, pathPc, canonicalPath, targetDirectory, tdErr, prevResolution>>

cliVars == <<osArgs, cliPc, flags, parseCommand, cmdErr, stderr, exitCode>>

callVars == <<calls, seenMaps>>

vars == <<loadVars, pathVars, cliVars, callVars>>

\* A return value of Load; pkgsNil tells the nil slice from an empty one.
NoReturn ==
    [returned |-> FALSE, pkgsNil |-> TRUE, pkgs |-> << >>, errorCount |-> 0, err |-> FALSE]

\* return nil, 0, fmt.Errorf("failed to load packages: %w", err)
FailureReturn ==
    [returned |-> TRUE, pkgsNil |-> TRUE, pkgs |-> << >>, errorCount |-> 0, err |-> TRUE]

\* return deduplicated, errorCount, nil
SuccessReturn(result, count) ==
    [returned |-> TRUE, pkgsNil |-> FALSE, pkgs |-> result,
     errorCount |-> ReturnedFailureCount(count, result), err |-> FALSE]

NoPrev == [pkgs |-> << >>, ret |-> NoReturn]

\* No earlier call of NewTargetDirectory.
NoResolution == [returned |-> FALSE, targetDirectory |-> NilTargetDirectory, err |-> NoError]

NoFlags == [output |-> << >>, includeTests |-> IncludeTestsDefault]

\* Load has not been called.
LoadIdle ==
    /\ includeTests = FALSE
    /\ pc = "idle"
    /\ pkgs = << >>
    /\ err = FALSE
    /\ errorCount = 0
    /\ printed = 0
    /\ deduplicated = << >>
    /\ steps = << >>
    /\ ret = NoReturn
    /\ run = 1
    /\ prev = NoPrev

\* The invocations of Load that may run concurrently.
Invocations == {1, 2}

\* A map[string]*packages.Package without entries.
EmptyMap == [k \in {} |-> k]

\* The locals of an invocation of Load at pc, before its first statement.
FreshCall(at) ==
    [pc |-> at, pkgs |-> << >>, err |-> FALSE, errorCount |-> 0, index |-> 1,
     result |-> << >>, steps |-> << >>, overlapped |-> FALSE, ret |-> NoReturn]

\* No concurrent invocation of Load is under way.
CallsIdle ==
    /\ calls = [i \in Invocations |-> FreshCall("idle")]
    /\ seenMaps = [i \in Invocations |-> EmptyMap]

\* NewTargetDirectory has not been called.
PathIdle ==
    /\ fs = Tree(FALSE)
    /\ cwd \in {wd \in WorkingDirectories : wd.ok /\ Names(wd.path) = <<"proj">>}
    /\ inputPath = << >>
    /\ pathPc = "idle"
    /\ canonicalPath = << >>
    /\ targetDirectory = NilTargetDirectory
    /\ tdErr = NoError
    /\ prevResolution = NoResolution

\* main has not been entered.
CliIdle ==
    /\ osArgs = << >>
    /\ cliPc = "idle"
    /\ flags = NoFlags
    /\ parseCommand = NilParseCommand
    /\ cmdErr = NoError
    /\ stderr = << >>
    /\ exitCode = -1

\* A call of Load with either value of includeTests.
Init ==
    /\ includeTests \in BOOLEAN
    /\ pc = "invoke"
    /\ pkgs = << >>
    /\ err = FALSE
    /\ errorCount = 0
    /\ printed = 0
    /\ deduplicated = << >>
    /\ steps = << >>
    /\ ret = NoReturn
    /\ run = 1
    /\ prev = NoPrev
    /\ PathIdle
    /\ CliIdle
    /\ CallsIdle

\* ------------------------------------------------------------------- Load
\* pkgs, err := packages.Load(cfg, "./..."); if err != nil { return nil, 0, ... }
InvokeWith(outcome) ==
    /\ pkgs' = outcome.pkgs
    /\ err' = outcome.err
    /\ steps' = <<"invoke">>
    /\ IF HardFailure(outcome)
       THEN /\ ret' = FailureReturn
            /\ pc' = "done"
       ELSE /\ ret' = NoReturn
            /\ pc' = "count"

\* The first invocation of Load on the directory.
Invoke ==
    /\ pc = "invoke"
    /\ \E outcome \in EngineOutcomes : InvokeWith(outcome)
    /\ UNCHANGED <<includeTests, errorCount, printed, deduplicated, run, prev>>
    /\ UNCHANGED <<pathVars, cliVars, callVars>>

\* errorCount := packages.PrintErrors(pkgs)
Count ==
    /\ pc = "count"
    /\ errorCount' = PrintErrors(pkgs)
    /\ printed' = printed + PrintErrors(pkgs)
    /\ steps' = Append(steps, "count")
    /\ pc' = "deduplicate"
    /\ UNCHANGED <<includeTests, pkgs, err, deduplicated, ret, run, prev>>
    /\ UNCHANGED <<pathVars, cliVars, callVars>>

\* deduplicated := deduplicatePackages(pkgs)
DeduplicatePackages ==
    /\ pc = "deduplicate"
    /\ \E d \in Deduplicate(pkgs) : deduplicated' = d
    /\ steps' = Append(steps, "deduplicate")
    /\ pc' = "sort"
    /\ UNCHANGED <<includeTests, pkgs, err, errorCount, printed, ret, run, prev>>
    /\ UNCHANGED <<pathVars, cliVars, callVars>>

\* sort.Slice(deduplicated, ...); return deduplicated, errorCount, nil
SortAndReturn ==
    /\ pc = "sort"
    /\ \E q \in SortSlice(deduplicated) :
          /\ deduplicated' = q
          /\ ret' = SuccessReturn(q, errorCount)
    /\ steps' = Append(steps, "sort")
    /\ pc' = "done"
    /\ UNCHANGED <<includeTests, pkgs, err, errorCount, printed, run, prev>>
    /\ UNCHANGED <<pathVars, cliVars, callVars>>

\* A second invocation of Load on the unchanged directory with the same
\* arguments: the engine fails again, or returns the same records in any
\* order. The locals are those of a fresh call.
InvokeAgain ==
    /\ pc = "done"
    /\ run = 1
    /\ run' = 2
    /\ prev' = [pkgs |-> pkgs, ret |-> ret]
    /\ errorCount' = 0
    /\ printed' = 0
    /\ deduplicated' = << >>
    /\ \E r \in Rearrangements(pkgs) : InvokeWith([err |-> err, pkgs |-> r])
    /\ UNCHANGED includeTests
    /\ UNCHANGED <<pathVars, cliVars, callVars>>

\* Everything Load can return for one outcome of packages.Load.
LoadReturns(outcome) ==
    IF HardFailure(outcome) THEN {FailureReturn}
    ELSE {SuccessReturn(q, PrintErrors(outcome.pkgs)) :
              q \in UNION {SortSlice(d) : d \in Deduplicate(outcome.pkgs)}}

Next ==
    \/ Invoke
    \/ Count
    \/ DeduplicatePackages
    \/ SortAndReturn

Spec == Init /\ [][Next]_vars

NextTwice ==
    \/ Next
    \/ InvokeAgain

SpecTwice == Init /\ [][NextTwice]_vars

\* ------------------------------------------------------- NewTargetDirectory
\* From "var resolvedPath string" to the result of filepath.EvalSymlinks.
CanonicalizePath ==
    /\ pathPc = "canonicalize"
    /\ \E wd \in Getwd(fs, cwd) :
          LET c == Canonicalize(fs, wd, inputPath)
          IN  IF c.err # NoError
              THEN /\ targetDirectory' = NilTargetDirectory
                   /\ tdErr' = c.err
                   /\ pathPc' = "done"
                   /\ UNCHANGED canonicalPath
              ELSE /\ canonicalPath' = c.path
                   /\ pathPc' = "validate"
                   /\ UNCHANGED <<targetDirectory, tdErr>>
    /\ UNCHANGED <<fs, cwd, inputPath, prevResolution>>
    /\ UNCHANGED <<loadVars, cliVars, callVars>>

\* targetDirectory := &TargetDirectory{Path: canonicalPath}; Validate; return.
ValidatePath ==
    /\ pathPc = "validate"
    /\ LET e == Validate(fs, canonicalPath)
       IN  IF e # NoError
           THEN /\ targetDirectory' = NilTargetDirectory
                /\ tdErr' = e
           ELSE /\ targetDirectory' = [isNil |-> FALSE, Path |-> canonicalPath]
                /\ tdErr' = NoError
    /\ pathPc' = "done"
    /\ UNCHANGED <<fs, cwd, inputPath, canonicalPath, prevResolution>>
    /\ UNCHANGED <<loadVars, cliVars, callVars>>

\* A call of NewTargetDirectory on any input, file system and working directory.
InitPath ==
    /\ LoadIdle
    /\ CliIdle
    /\ CallsIdle
    /\ fs \in FileSystems
    /\ cwd \in WorkingDirectories
    /\ inputPath \in InputPaths
    /\ pathPc = "canonicalize"
    /\ canonicalPath = << >>
    /\ targetDirectory = NilTargetDirectory
    /\ tdErr = NoError
    /\ prevResolution = NoResolution

NextPath ==
    \/ CanonicalizePath
    \/ ValidatePath

SpecPath == InitPath /\ [][NextPath]_vars

\* A second call of NewTargetDirectory with the same input, the file system
\* and the working directory unchanged. The locals are those of a fresh call.
ResolveAgain ==
    /\ pathPc = "done"
    /\ ~prevResolution.returned
    /\ prevResolution' = [returned |-> TRUE, targetDirectory |-> targetDirectory, err |-> tdErr]
    /\ pathPc' = "canonicalize"
    /\ canonicalPath' = << >>
    /\ targetDirectory' = NilTargetDirectory
    /\ tdErr' = NoError
    /\ UNCHANGED <<fs, cwd, inputPath>>
    /\ UNCHANGED <<loadVars, cliVars, callVars>>

NextPathTwice ==
    \/ NextPath
    \/ ResolveAgain

SpecPathTwice == InitPath /\ [][NextPathTwice]_vars

\* The file system without the entry at gone and everything below it.
Without(fsys, gone) ==
    [loc \in {l \in DOMAIN fsys :
                  ~(Len(l) >= Len(gone) /\ SubSeq(l, 1, Len(gone)) = gone)} |-> fsys[loc]]

\* Another process removes an entry while NewTargetDirectory runs: before
\* filepath.EvalSymlinks, or between it and the os.Stat of Validate.
RemovePath ==
    /\ pathPc \in {"canonicalize", "validate"}
    /\ fs \in FileSystems
    /\ \E gone \in DOMAIN fs \ {<< >>} : fs' = Without(fs, gone)
    /\ UNCHANGED <<cwd, inputPath, pathPc, canonicalPath, targetDirectory, tdErr, prevResolution>>
    /\ UNCHANGED <<loadVars, cliVars, callVars>>

NextPathRace ==
    \/ NextPath
    \/ RemovePath

SpecPathRace == InitPath /\ [][NextPathRace]_vars

\* --------------------------------------------------------------------- main
\* Longest argument list after the command name.
MaxArgs == 3

\* The command lines the model draws from: no command, an unknown command,
\* or "parse" followed by at most MaxArgs arguments.
CommandLines ==
    { <<<<"codegraph">>>>, <<<<"codegraph">>, <<"serve">>>> }
        \cup { <<<<"codegraph">>, <<"parse">>>> \o rest : rest \in SeqsUpTo(ArgPool, MaxArgs) }

\* The outcomes of packages.Load the runs of Execute draw from: a failure,
\* no package, one clean package, one package with errors, and the variants
\* of one package with its test binary.
ExecuteEngineOutcomes ==
    { [err |-> TRUE, pkgs |-> << >>],
      [err |-> FALSE, pkgs |-> << >>],
      [err |-> FALSE, pkgs |-> <<[PkgPath |-> PathA, GoFiles |-> {1}, Errors |-> 0]>>],
      [err |-> FALSE, pkgs |-> <<[PkgPath |-> PathA, GoFiles |-> {1}, Errors |-> MaxErrs]>>],
      [err |-> FALSE, pkgs |-> <<[PkgPath |-> PathA, GoFiles |-> {1}, Errors |-> MaxErrs],
                                 [PkgPath |-> PathA, GoFiles |-> {1, 2}, Errors |-> MaxErrs],
                                 [PkgPath |-> PathADotTest, GoFiles |-> {1}, Errors |-> 0]>>] }

\* The error Execute returns, given what Load returned.
ExecuteErrorOnFailures(loaded) == loaded.err \/ loaded.errorCount > 0

ExecuteError(loaded) == loaded.err

\* main's exit through os.Exit(1), after the lines written to os.Stderr.
ExitWith(lines, e) ==
    /\ stderr' = stderr \o lines
    /\ cmdErr' = e
    /\ exitCode' = 1
    /\ cliPc' = "exited"

\* if len(os.Args) < 2 { usage; os.Exit(1) }
MainNoCommand ==
    /\ cliPc = "main"
    /\ Len(osArgs) < 2
    /\ ExitWith(<<"Usage">>, NoError)
    /\ UNCHANGED <<osArgs, flags, parseCommand>>
    /\ UNCHANGED <<loadVars, pathVars, callVars>>

\* switch os.Args[1] { default: ...; os.Exit(1) }
MainUnknownCommand ==
    /\ cliPc = "main"
    /\ Len(osArgs) >= 2
    /\ osArgs[2] # <<"parse">>
    /\ ExitWith(<<"Unknown command", "Usage">>, NoError)
    /\ UNCHANGED <<osArgs, flags, parseCommand>>
    /\ UNCHANGED <<loadVars, pathVars, callVars>>

\* What the flag set writes to os.Stderr when Parse fails: the usage text
\* alone for -help, the error and the usage text otherwise.
FlagDiagnostics(e) ==
    IF e.kind = "flag: help requested" THEN <<"Usage of parse">>
    ELSE <<e.kind, "Usage of parse">>

\* case "parse": NewParseCommand(os.Args[2:]) up to the call of
\* path.NewTargetDirectory(directoryArgument).
MainParse ==
    /\ cliPc = "main"
    /\ Len(osArgs) >= 2
    /\ osArgs[2] = <<"parse">>
    /\ LET parsed == FlagParse(SubSeq(osArgs, 3, Len(osArgs)), << >>, IncludeTestsDefault)
           directoryArgument == IF Len(parsed.rest) > 0 THEN parsed.rest[1] ELSE << >>
       IN  IF parsed.err # NoError
           THEN /\ ExitWith(FlagDiagnostics(parsed.err) \o <<"Error">>, parsed.err)
                /\ UNCHANGED <<flags, inputPath, pathPc>>
           ELSE /\ flags' = [output |-> parsed.output, includeTests |-> parsed.includeTests]
                /\ inputPath' = directoryArgument
                /\ pathPc' = "canonicalize"
                /\ cliPc' = "newTargetDirectory"
                /\ UNCHANGED <<cmdErr, stderr, exitCode>>
    /\ UNCHANGED <<osArgs, parseCommand>>
    /\ UNCHANGED <<fs, cwd, canonicalPath, targetDirectory, tdErr, prevResolution>>
    /\ UNCHANGED <<loadVars, callVars>>

\* NewParseCommand after path.NewTargetDirectory returned, and main's check
\* of its result.
FinishNewParseCommand ==
    /\ cliPc = "newTargetDirectory"
    /\ pathPc = "done"
    /\ IF tdErr # NoError
       THEN /\ ExitWith(<<"Error">>, tdErr)
            /\ UNCHANGED parseCommand
       ELSE IF ValidateCommand(flags.output) # NoError
       THEN /\ ExitWith(<<"Error">>, ValidateCommand(flags.output))
            /\ UNCHANGED parseCommand
       ELSE /\ parseCommand' = [isNil |-> FALSE, TargetDirectory |-> targetDirectory,
                                OutputFile |-> flags.output,
                                IncludeTests |-> flags.includeTests]
            /\ cliPc' = "execute"
            /\ UNCHANGED <<cmdErr, stderr, exitCode>>
    /\ UNCHANGED <<osArgs, flags>>
    /\ UNCHANGED <<loadVars, pathVars, callVars>>

\* parseCommand.Execute() with everything parser.Load does, and the end of
\* main: os.Exit(1) on an error, exit status 0 otherwise.
Execute ==
    /\ cliPc = "execute"
    /\ \E outcome \in ExecuteEngineOutcomes : \E loaded \in LoadReturns(outcome) :
          /\ includeTests' = parseCommand.IncludeTests
          /\ pkgs' = outcome.pkgs
          /\ err' = outcome.err
          /\ ret' = loaded
          /\ IF ExecuteError(loaded)
             THEN ExitWith(<<"Error">>, Error("failed to load packages", << >>, "ok"))
             ELSE /\ stderr' = IF loaded.errorCount > 0
                               THEN Append(stderr, "Encountered parse errors")
                               ELSE stderr
                  /\ exitCode' = 0
                  /\ cliPc' = "exited"
                  /\ UNCHANGED cmdErr
    /\ UNCHANGED <<pc, errorCount, printed, deduplicated, steps, run, prev>>
    /\ UNCHANGED <<osArgs, flags, parseCommand>>
    /\ UNCHANGED <<pathVars, callVars>>

\* A run of the program on any command line.
InitCli ==
    /\ LoadIdle
    /\ CallsIdle
    /\ fs = Tree(FALSE)
    /\ cwd \in WorkingDirectories
    /\ inputPath = << >>
    /\ pathPc = "idle"
    /\ canonicalPath = << >>
    /\ targetDirectory = NilTargetDirectory
    /\ tdErr = NoError
    /\ prevResolution = NoResolution
    /\ osArgs \in CommandLines
    /\ cliPc = "main"
    /\ flags = NoFlags
    /\ parseCommand = NilParseCommand
    /\ cmdErr = NoError
    /\ stderr = << >>
    /\ exitCode = -1

NextCli ==
    \/ MainNoCommand
    \/ MainUnknownCommand
    \/ MainParse
    \/ CanonicalizePath
    \/ ValidatePath
    \/ FinishNewParseCommand
    \/ Execute

SpecCli == InitCli /\ [][NextCli]_vars

\* ------------------------------------------------- concurrent invocations
\* The outcomes of packages.Load the concurrent invocations draw from: those
\* of Execute, a test binary ahead of a real package, two variants with as
\* many files, and two packages in descending order.
PipelineEngineOutcomes ==
    ExecuteEngineOutcomes \cup
    { [err |-> FALSE, pkgs |-> <<[PkgPath |-> PathADotTest, GoFiles |-> {1}, Errors |-> MaxErrs],
                                [PkgPath |-> PathB, GoFiles |-> {2}, Errors |-> 0]>>],
      [err |-> FALSE, pkgs |-> <<[PkgPath |-> PathA, GoFiles |-> {1}, Errors |-> 0],
                                [PkgPath |-> PathA, GoFiles |-> {2}, Errors |-> MaxErrs]>>],
      [err |-> FALSE, pkgs |-> <<[PkgPath |-> PathB, GoFiles |-> {1}, Errors |-> 0],
                                [PkgPath |-> PathATest, GoFiles |-> {1, 2}, Errors |-> 0]>>] }

\* Which map "seen := make(map[string]*packages.Package)" gives invocation
\* i: a local of its own call of deduplicatePackages.
SeenScopeShared(i) == 1

SeenScope(i) == i

\* The invocation has started and not returned.
InProgress(call) == call.pc \notin {"idle", "invoke", "done"}

\* Invocation i moves to the locals new; it has overlapped with another
\* invocation when that one was in progress at one of its steps.
Step(i, new) ==
    calls' = [calls EXCEPT ![i] =
                 [new EXCEPT !.overlapped =
                     @ \/ \E j \in Invocations \ {i} : InProgress(calls[j])]]

\* pkgs, err := packages.Load(cfg, "./..."); if err != nil { return nil, 0, ... }
CallInvoke(i) ==
    /\ calls[i].pc = "invoke"
    /\ \E outcome \in PipelineEngineOutcomes :
          Step(i, [calls[i] EXCEPT
                      !.pkgs = outcome.pkgs,
                      !.err = outcome.err,
                      !.steps = <<"invoke">>,
                      !.ret = IF HardFailure(outcome) THEN FailureReturn ELSE NoReturn,
                      !.pc = IF HardFailure(outcome) THEN "done" ELSE "count"])
    /\ UNCHANGED seenMaps
    /\ UNCHANGED <<loadVars, pathVars, cliVars>>

\* errorCount := packages.PrintErrors(pkgs)
CallCount(i) ==
    /\ calls[i].pc = "count"
    /\ Step(i, [calls[i] EXCEPT
                    !.errorCount = PrintErrors(calls[i].pkgs),
                    !.steps = Append(@, "count"),
                    !.pc = "make"])
    /\ UNCHANGED seenMaps
    /\ UNCHANGED <<loadVars, pathVars, cliVars>>

\* deduplicatePackages(pkgs): seen := make(map[string]*packages.Package)
CallMake(i) ==
    /\ calls[i].pc = "make"
    /\ seenMaps' = [seenMaps EXCEPT ![SeenScope(i)] = EmptyMap]
    /\ Step(i, [calls[i] EXCEPT !.index = 1, !.pc = "range"])
    /\ UNCHANGED <<loadVars, pathVars, cliVars>>

\* One iteration of "for _, pkg := range pkgs": the record is skipped as
\* synthetic ("filter") or grouped with its identifier ("reconcile").
CallRange(i) ==
    /\ calls[i].pc = "range"
    /\ calls[i].index <= Len(calls[i].pkgs)
    /\ LET pkg == calls[i].pkgs[calls[i].index]
       IN  /\ seenMaps' = [seenMaps EXCEPT ![SeenScope(i)] = SeenStep(@, pkg)]
           /\ Step(i, [calls[i] EXCEPT
                           !.index = @ + 1,
                           !.steps = Append(@, IF IsSynthetic(pkg) THEN "filter"
                                               ELSE "reconcile")])
    /\ UNCHANGED <<loadVars, pathVars, cliVars>>

\* The end of the loop over pkgs and the conversion of seen to a slice.
CallCollect(i) ==
    /\ calls[i].pc = "range"
    /\ calls[i].index > Len(calls[i].pkgs)
    /\ \E r \in Collect(seenMaps[SeenScope(i)]) :
          Step(i, [calls[i] EXCEPT
                      !.result = r,
                      !.steps = Append(@, "collect"),
                      !.pc = "sort"])
    /\ UNCHANGED seenMaps
    /\ UNCHANGED <<loadVars, pathVars, cliVars>>

\* sort.Slice(deduplicated, ...); return deduplicated, errorCount, nil
CallSort(i) ==
    /\ calls[i].pc = "sort"
    /\ \E q \in SortSlice(calls[i].result) :
          Step(i, [calls[i] EXCEPT
                      !.result = q,
                      !.ret = SuccessReturn(q, calls[i].errorCount),
                      !.steps = Append(@, "sort"),
                      !.pc = "done"])
    /\ UNCHANGED seenMaps
    /\ UNCHANGED <<loadVars, pathVars, cliVars>>

\* The next statement of invocation i.
CallStep(i) ==
    \/ CallInvoke(i)
    \/ CallCount(i)
    \/ CallMake(i)
    \/ CallRange(i)
    \/ CallCollect(i)
    \/ CallSort(i)

\* Two goroutines, each about to call Load.
InitConcurrent ==
    /\ LoadIdle
    /\ PathIdle
    /\ CliIdle
    /\ calls = [i \in Invocations |-> FreshCall("invoke")]
    /\ seenMaps = [i \in Invocations |-> EmptyMap]

NextConcurrent == \E i \in Invocations : CallStep(i)

SpecConcurrent == InitConcurrent /\ [][NextConcurrent]_vars

\* Each goroutine that can take a step eventually takes one.
SpecConcurrentFair ==
    SpecConcurrent /\ \A i \in Invocations : WF_vars(CallStep(i))

\* ------------------------------------------------------------------ claims
\* Load has returned without a hard error.
Succeeded == ret.returned /\ ~ret.err

\* The import paths of a slice of package records, in order.
PathsOf(s) == [i \in DOMAIN s |-> s[i].PkgPath]

\* C1: a successful Load returns no two packages with the same PkgPath,
\* whatever records the engine returned and in whatever order.
C1_NoDuplicatePkgPath ==
    Succeeded =>
        \A i, j \in DOMAIN ret.pkgs :
            ret.pkgs[i].PkgPath = ret.pkgs[j].PkgPath => i = j

\* The engine returned two records for one real import path and Load returned.
C1_Witness ==
    /\ Succeeded
    /\ Len(pkgs) >= 2
    /\ pkgs[1].PkgPath = pkgs[2].PkgPath
    /\ ~HasSuffix(pkgs[1].PkgPath, TestSuffix)
    /\ Len(ret.pkgs) = 1

\* C2: the sequence a successful Load returns is strictly ascending by
\* PkgPath under byte-wise comparison.
C2_StrictlyAscending ==
    Succeeded =>
        \A i \in 1..(Len(ret.pkgs) - 1) :
            StrLess(ret.pkgs[i].PkgPath, ret.pkgs[i + 1].PkgPath)

\* The engine returned two real packages in descending order, one path a
\* prefix of the other, and Load returned both.
C2_Witness ==
    /\ Succeeded
    /\ Len(pkgs) >= 2
    /\ pkgs[1].PkgPath = PathATest
    /\ pkgs[2].PkgPath = PathA
    /\ Len(ret.pkgs) = 2

\* C3: no package a successful Load returns has a PkgPath ending in ".test",
\* with includeTests set or not.
C3_NoSyntheticTestPackage ==
    Succeeded =>
        \A i \in DOMAIN ret.pkgs : ~HasSuffix(ret.pkgs[i].PkgPath, TestSuffix)

\* The engine returned a ".test" record next to a real one, includeTests
\* was not set, and Load returned.
C3_Witness ==
    /\ Succeeded
    /\ ~includeTests
    /\ \E i \in DOMAIN pkgs : pkgs[i].PkgPath = PathADotTest
    /\ \E i \in DOMAIN pkgs : pkgs[i].PkgPath = PathATest
    /\ Len(ret.pkgs) = 1

\* C4: Load returns an error exactly when packages.Load returned one; it then
\* returns nil and 0 and has executed nothing after the invocation (no
\* diagnostic printing, no reconciliation, no sort). Embedded errors of the
\* records never make it return an error.
C4_ErrorIffEngineFailed ==
    ret.returned =>
        /\ ret.err <=> err
        /\ ret.err =>
              /\ ret.pkgsNil
              /\ ret.pkgs = << >>
              /\ ret.errorCount = 0
              /\ printed = 0
              /\ steps = <<"invoke">>
        /\ ~ret.err => steps = <<"invoke", "count", "deduplicate", "sort">>

\* Every record the engine returned carries embedded errors, and Load
\* returned without an error.
C4_WitnessEmbedded ==
    /\ Succeeded
    /\ Len(pkgs) = MaxPkgs
    /\ \A i \in DOMAIN pkgs : pkgs[i].Errors = MaxErrs
    /\ printed > 0

\* The engine invocation failed and Load returned the error.
C4_Witness == ret.returned /\ ret.err /\ err

\* C5: every record the engine returns with embedded errors and a PkgPath
\* without the ".test" suffix has its PkgPath in Load's output.
C5_BrokenPackagesKept ==
    Succeeded =>
        \A i \in DOMAIN pkgs :
            (pkgs[i].Errors > 0 /\ ~HasSuffix(pkgs[i].PkgPath, TestSuffix))
                => \E j \in DOMAIN ret.pkgs : ret.pkgs[j].PkgPath = pkgs[i].PkgPath

\* A record with embedded errors lost to a variant with more files and no
\* errors: its PkgPath is still in the output.
C5_Witness ==
    /\ Succeeded
    /\ Len(pkgs) >= 2
    /\ pkgs[1].PkgPath = PathA /\ pkgs[1].Errors > 0 /\ pkgs[1].GoFiles = {1}
    /\ pkgs[2].PkgPath = PathA /\ pkgs[2].Errors = 0 /\ pkgs[2].GoFiles = {1, 2}
    /\ PathsOf(ret.pkgs) = <<PathA>>

\* The indices of the engine's records for import path p.
VariantsOf(p) == {i \in DOMAIN pkgs : pkgs[i].PkgPath = p}

\* The engine returned, for real import path p, at least two variants, one of
\* which (the combined one) lists every file of the others.
HasCombinedVariant(p) ==
    /\ ~HasSuffix(p, TestSuffix)
    /\ Cardinality(VariantsOf(p)) >= 2
    /\ \E c \in VariantsOf(p) :
          \A i \in VariantsOf(p) : pkgs[i].GoFiles \subseteq pkgs[c].GoFiles

\* C6: with includeTests set, when the engine returns for one import path a
\* production-only variant and a combined variant, Load returns exactly one
\* entry for that path and its files are the union of the variants' files.
C6_CombinedVariantKept ==
    (Succeeded /\ includeTests) =>
        \A p \in PkgPaths :
            HasCombinedVariant(p) =>
                /\ Cardinality({j \in DOMAIN ret.pkgs : ret.pkgs[j].PkgPath = p}) = 1
                /\ \A j \in DOMAIN ret.pkgs :
                      ret.pkgs[j].PkgPath = p =>
                          ret.pkgs[j].GoFiles = UNION {pkgs[i].GoFiles : i \in VariantsOf(p)}

\* The production-only variant came first, the combined one second.
C6_Witness ==
    /\ Succeeded
    /\ includeTests
    /\ Len(pkgs) >= 2
    /\ pkgs[1].PkgPath = PathA /\ pkgs[1].GoFiles = {1}
    /\ pkgs[2].PkgPath = PathA /\ pkgs[2].GoFiles = {1, 2}
    /\ HasCombinedVariant(PathA)
    /\ Len(ret.pkgs) = 1
    /\ ret.pkgs[1].GoFiles = {1, 2}

\* C7: the failure count Load returns is the tally PrintErrors took over
\* everything the engine returned; it is not recomputed over the output.
C7_CountOverEngineResult ==
    Succeeded =>
        /\ ret.errorCount = errorCount
        /\ ret.errorCount = PrintErrors(pkgs)

\* Errors of a discarded variant and of a filtered ".test" record are in the
\* returned count although their records are not in the output.
C7_Witness ==
    /\ Succeeded
    /\ ret.errorCount > PrintErrors(ret.pkgs)
    /\ \E i \in DOMAIN pkgs : HasSuffix(pkgs[i].PkgPath, TestSuffix) /\ pkgs[i].Errors > 0

\* The same, for a variant discarded in reconciliation.
C7_WitnessDiscarded ==
    /\ Succeeded
    /\ Len(pkgs) >= 2
    /\ pkgs[1].PkgPath = PathA /\ pkgs[1].Errors > 0 /\ pkgs[1].GoFiles = {1}
    /\ pkgs[2].PkgPath = PathA /\ pkgs[2].Errors = 0 /\ pkgs[2].GoFiles = {1, 2}
    /\ ret.errorCount = pkgs[1].Errors
    /\ PrintErrors(ret.pkgs) = 0

\* C8: a second invocation over the same engine records, returned in any
\* order, yields the same import paths in the same order, the same failure
\* count and the same error outcome as the first.
C8_SameOutcomeTwice ==
    (run = 2 /\ ret.returned) =>
        /\ PathsOf(ret.pkgs) = PathsOf(prev.ret.pkgs)
        /\ ret.errorCount = prev.ret.errorCount
        /\ ret.err = prev.ret.err
        /\ ret.pkgsNil = prev.ret.pkgsNil

\* The second invocation got the records in another order than the first
\* and both returned two packages.
C8_Witness ==
    /\ run = 2
    /\ Succeeded
    /\ pkgs # prev.pkgs
    /\ Len(ret.pkgs) = 2
    /\ ret.errorCount > 0

\* The command is "parse".
IsParseCommand == Len(osArgs) >= 2 /\ osArgs[2] = <<"parse">>

\* flagSet.Parse rejects the arguments after "parse".
BadFlags ==
    IsParseCommand
        /\ FlagParse(SubSeq(osArgs, 3, Len(osArgs)), << >>, IncludeTestsDefault).err # NoError

AbsoluteInput ==
    IF IsAbs(inputPath) THEN inputPath ELSE cwd.path \o PathString(Names(inputPath))

InputMissing ==
    /\ inputPath # << >>
    /\ IsAbs(inputPath) \/ cwd.ok
    /\ Names(AbsoluteInput) \notin DOMAIN fs
    /\ Walk(fs, << >>, Names(AbsoluteInput)).errno = "ENOENT"

\* C10: for an input path that does not exist NewTargetDirectory returns a
\* nil TargetDirectory and the error "directory does not exist" with the
\* path in its text.
C10_MissingPathIsNotFound ==
    (pathPc = "done" /\ InputMissing) =>
        /\ targetDirectory.isNil
        /\ tdErr.kind = "directory does not exist"
        /\ tdErr.path = AbsoluteInput

\* NewTargetDirectory can form the absolute path of its argument: the
\* argument is absolute, or os.Getwd succeeds.
InputResolvable == IsAbs(inputPath) \/ cwd.ok

\* The absolute path NewTargetDirectory resolves: the working directory for
\* the empty input.
ResolvedInput == IF inputPath = << >> THEN cwd.path ELSE AbsoluteInput

\* The kernel's walk along the path NewTargetDirectory resolves.
InputWalk == Walk(fs, << >>, Names(ResolvedInput))

\* The input names a plain file, directly or through symbolic links.
DenotesPlainFile ==
    /\ inputPath # << >>
    /\ InputResolvable
    /\ InputWalk.errno = "ok"
    /\ InputWalk.node.kind = "file"

\* C11: for an input that denotes a plain file, or a symbolic link to one,
\* NewTargetDirectory returns a nil TargetDirectory and the error "is a
\* file, not a directory", whose text embeds the path of that file (the
\* input itself when it is absolute and no component is a symbolic link).
C11_PlainFileIsAFile ==
    (pathPc = "done" /\ DenotesPlainFile) =>
        /\ targetDirectory.isNil
        /\ tdErr.kind = "is a file, not a directory"
        /\ tdErr.path = PathString(InputWalk.at)
        /\ (IsAbs(inputPath) /\ Names(inputPath) = InputWalk.at) => tdErr.path = inputPath

\* The input is a symbolic link whose target is a plain file.
C11_Witness ==
    /\ pathPc = "done"
    /\ inputPath = <<Slash, "flink">>
    /\ DenotesPlainFile
    /\ targetDirectory.isNil
    /\ tdErr.path = <<Slash, "proj", Slash, "main.go">>

\* The same, for the plain file named directly.
C11_WitnessDirect ==
    /\ pathPc = "done"
    /\ inputPath = <<Slash, "proj", Slash, "main.go">>
    /\ tdErr.kind = "is a file, not a directory"
    /\ tdErr.path = inputPath

\* The file system answers the walk along the resolved path with a
\* permission failure.
InputPermissionFailure ==
    /\ InputResolvable
    /\ InputWalk.errno = "EACCES"

\* C12: when the file system reports a permission failure for the directory
\* being resolved, NewTargetDirectory fails with "permission denied
\* accessing", not with "directory does not exist" and not with a wrapped
\* resolution error.
C12_PermissionFailureIsPermissionDenied ==
    (pathPc = "done" /\ InputPermissionFailure) =>
        /\ targetDirectory.isNil
        /\ tdErr.kind = "permission denied accessing"

IsCanonical(names) ==
    \A n \in 0..Len(names) :
        /\ SubSeq(names, 1, n) \in DOMAIN fs
        /\ fs[SubSeq(names, 1, n)].kind # "link"

\* C14: when NewTargetDirectory returns a TargetDirectory its Path is
\* absolute and canonical and names an existing, readable directory; when it
\* returns an error the TargetDirectory is nil.
C14_ResolvedDirectoryVerified ==
    pathPc = "done" =>
        IF tdErr = NoError
        THEN /\ ~targetDirectory.isNil
             /\ IsAbs(targetDirectory.Path)
             /\ IsCanonical(Names(targetDirectory.Path))
             /\ fs[Names(targetDirectory.Path)].kind = "dir"
             /\ fs[Names(targetDirectory.Path)].read
        ELSE targetDirectory.isNil

\* C15: with the file system and the working directory unchanged, a second
\* call of NewTargetDirectory on the same input returns the same Path, or an
\* error of the same kind, whichever path os.Getwd reports in either call.
C15_SameResolutionTwice ==
    (pathPc = "done" /\ prevResolution.returned) =>
        /\ targetDirectory = prevResolution.targetDirectory
        /\ tdErr.kind = prevResolution.err.kind

\* Two successful calls on a relative input, the working directory being
\* reachable through a symbolic link.
C15_Witness ==
    /\ pathPc = "done"
    /\ prevResolution.returned
    /\ inputPath = <<"sub">>
    /\ ~targetDirectory.isNil
    /\ targetDirectory.Path = <<Slash, "proj", Slash, "sub">>

\* Two failing calls on the same missing path.
C15_WitnessError ==
    /\ pathPc = "done"
    /\ prevResolution.returned
    /\ tdErr # NoError
    /\ prevResolution.err.kind = "failed to resolve symlinks for"

\* os.Args[2:], the arguments NewParseCommand is called with.
ParseArguments == SubSeq(osArgs, 3, Len(osArgs))

\* What flagSet.Parse makes of them.
Parsed == FlagParse(ParseArguments, << >>, IncludeTestsDefault)

\* The argument spells the flag name, with or without a value.
NamesFlag(arg, name) ==
    Len(arg) >= 3 /\ arg[1] = Dash /\ arg[2] = Dash /\ arg[3] = name

\* The argument is spelled as a flag.
IsFlagArgument(arg) == Len(arg) >= 1 /\ arg[1] = Dash

\* NewParseCommand has returned to main.
NewParseCommandReturned == IsParseCommand /\ cliPc \in {"execute", "exited"}

\* The error NewParseCommand returned: main exits on it before Execute.
NewParseCommandError == IF ret.returned THEN NoError ELSE cmdErr

\* The command line gives no --output, or an empty one, and nothing but
\* positional arguments after the flags.
OutputMissingOrEmpty ==
    /\ ~BadFlags
    /\ Parsed.output = << >>
    /\ \A i \in DOMAIN Parsed.rest : ~IsFlagArgument(Parsed.rest[i])

\* The directory argument (inputPath, once the flags are parsed) is an
\* absolute path that does not name a directory that can be reached.
DirectoryArgumentUnusable ==
    /\ IsAbs(inputPath)
    /\ \/ InputWalk.errno # "ok"
       \/ InputWalk.node.kind # "dir"

\* C16: NewParseCommand validates --output before the directory: when
\* --output is missing or empty and the directory argument is unusable as
\* well, the error is "--output flag requires a file path".
C16_OutputValidatedFirst ==
    (NewParseCommandReturned /\ OutputMissingOrEmpty /\ DirectoryArgumentUnusable) =>
        /\ parseCommand.isNil
        /\ NewParseCommandError.kind = "--output flag requires a file path"

\* --include-tests is among the arguments.
IncludeTestsGiven ==
    \E i \in DOMAIN ParseArguments : NamesFlag(ParseArguments[i], "include-tests")

\* C17: without --include-tests on the command line NewParseCommand yields
\* IncludeTests = false; IncludeTests is true only when the flag is given
\* and not set to false.
C17_IncludeTestsDefaultsToFalse ==
    (NewParseCommandReturned /\ ~parseCommand.isNil) =>
        /\ ~IncludeTestsGiven => ~parseCommand.IncludeTests
        /\ parseCommand.IncludeTests =>
              \E i \in DOMAIN ParseArguments :
                  /\ NamesFlag(ParseArguments[i], "include-tests")
                  /\ ParseArguments[i] # <<Dash, Dash, "include-tests", Equals, "false">>

\* The arguments are [d, --output, f], d an existing directory and f a
\* non-empty file name.
DirectoryBeforeFlags ==
    /\ Len(ParseArguments) = 3
    /\ ~IsFlagArgument(ParseArguments[1])
    /\ IsAbs(ParseArguments[1])
    /\ Walk(fs, << >>, Names(ParseArguments[1])).errno = "ok"
    /\ Walk(fs, << >>, Names(ParseArguments[1])).node.kind = "dir"
    /\ ParseArguments[2] = <<Dash, Dash, "output">>
    /\ ParseArguments[3] # << >>
    /\ ~IsFlagArgument(ParseArguments[3])

\* C18: the directory may precede the flags: NewParseCommand accepts
\* [d, --output, f] and returns OutputFile = f and the resolution of d.
C18_DirectoryMayPrecedeFlags ==
    (NewParseCommandReturned /\ DirectoryBeforeFlags) =>
        /\ ~parseCommand.isNil
        /\ NewParseCommandError = NoError
        /\ parseCommand.OutputFile = ParseArguments[3]
        /\ parseCommand.TargetDirectory.Path
               = PathString(Walk(fs, << >>, Names(ParseArguments[1])).at)

\* C19: "codegraph parse --help" prints the usage text of the flag set and
\* the process exits with status 0.
C19_HelpExitsZero ==
    (cliPc = "exited" /\ IsParseCommand /\ ParseArguments = <<<<Dash, Dash, "help">>>>) =>
        /\ \E i \in DOMAIN stderr : stderr[i] = "Usage of parse"
        /\ exitCode = 0

\* C20: NewParseCommand returns a command or an error, never both and never
\* neither. A command has a TargetDirectory and a non-empty OutputFile; a
\* flag error, an unusable directory and a missing or empty --output give a
\* nil command and an error.
C20_CommandOrError ==
    NewParseCommandReturned =>
        /\ parseCommand.isNil <=> NewParseCommandError # NoError
        /\ ~parseCommand.isNil =>
              /\ ~parseCommand.TargetDirectory.isNil
              /\ parseCommand.OutputFile # << >>
        /\ (BadFlags \/ tdErr # NoError \/ OutputMissingOrEmpty) =>
              /\ parseCommand.isNil
              /\ NewParseCommandError # NoError

\* The directory resolved and --output= gave the empty file name.
C20_Witness ==
    /\ NewParseCommandReturned
    /\ tdErr = NoError
    /\ ~targetDirectory.isNil
    /\ \E i \in DOMAIN ParseArguments : ParseArguments[i] = <<Dash, Dash, "output", Equals>>
    /\ parseCommand.isNil
    /\ NewParseCommandError.kind = "--output flag requires a file path"

\* A command was returned.
C20_WitnessCommand ==
    /\ NewParseCommandReturned
    /\ cliPc = "execute"
    /\ ~parseCommand.isNil
    /\ parseCommand.OutputFile = <<"graph.json">>
    /\ parseCommand.TargetDirectory.Path = <<Slash, "proj">>

\* An invalid boolean value was rejected.
C20_WitnessFlagError ==
    /\ NewParseCommandReturned
    /\ parseCommand.isNil
    /\ NewParseCommandError.kind = "invalid boolean value"

\* C21: when the engine returns no packages, Load returns an empty
\* sequence, the failure count 0 and no error.
C21_NoPackagesIsEmptyResult ==
    (ret.returned /\ ~err /\ pkgs = << >>) =>
        /\ ~ret.err
        /\ ret.pkgs = << >>
        /\ ret.errorCount = 0

\* The engine returned no packages and Load ran all its steps.
C21_Witness ==
    /\ ret.returned
    /\ ~err
    /\ pkgs = << >>
    /\ steps = <<"invoke", "count", "deduplicate", "sort">>
    /\ ~ret.pkgsNil

\* The number of the engine's records that carry at least one embedded error.
PackagesWithErrors(s) == Cardinality({i \in DOMAIN s : s[i].Errors > 0})

\* C22: the failure count Load returns is the number of engine records with
\* at least one embedded error, not the number of errors.
C22_CountIsPackagesWithErrors ==
    Succeeded => ret.errorCount = PackagesWithErrors(pkgs)

\* What invocation i returns when it runs alone on its engine result.
ReturnsAlone(i) == LoadReturns([err |-> calls[i].err, pkgs |-> calls[i].pkgs])

FirstLargestOf(s, p) ==
    CHOOSE i \in DOMAIN s :
        /\ s[i].PkgPath = p
        /\ \A k \in DOMAIN s :
              s[k].PkgPath = p =>
                  /\ Cardinality(s[k].GoFiles) <= Cardinality(s[i].GoFiles)
                  /\ k < i => Cardinality(s[k].GoFiles) < Cardinality(s[i].GoFiles)

\* The identifiers of the engine's records that do not end in ".test".
RealIdentifiers ==
    {pkgs[i].PkgPath : i \in {k \in DOMAIN pkgs : ~HasSuffix(pkgs[k].PkgPath, TestSuffix)}}

\* C24: for every non-synthetic identifier the record Load returns is the
\* first, in the engine's order, of that identifier's records with the most
\* files: a tie keeps the record met first.
C24_TiesKeepFirst ==
    Succeeded =>
        /\ \A p \in RealIdentifiers :
              \E j \in DOMAIN ret.pkgs : ret.pkgs[j] = pkgs[FirstLargestOf(pkgs, p)]
        /\ \A j \in DOMAIN ret.pkgs :
              ret.pkgs[j] = pkgs[FirstLargestOf(pkgs, ret.pkgs[j].PkgPath)]

\* Two different records of one identifier with as many files: the first
\* is returned.
C24_Witness ==
    /\ Succeeded
    /\ Len(pkgs) = 2
    /\ pkgs[1].PkgPath = PathA /\ pkgs[1].GoFiles = {1} /\ pkgs[1].Errors = 0
    /\ pkgs[2].PkgPath = PathA /\ pkgs[2].GoFiles = {2} /\ pkgs[2].Errors = MaxErrs
    /\ ret.pkgs = <<pkgs[1]>>

\* The expected log of an invocation that got the records s: a synthetic
\* record is skipped ("filter"), any other grouped ("reconcile"), in the
\* order of the records.
PassLog(s) ==
    [k \in DOMAIN s |-> IF HasSuffix(s[k].PkgPath, TestSuffix) THEN "filter" ELSE "reconcile"]

FullLog(s) == <<"invoke", "count">> \o PassLog(s) \o <<"collect", "sort">>

\* s is an initial part of t.
IsPrefix(s, t) == Len(s) <= Len(t) /\ SubSeq(t, 1, Len(s)) = s

\* C25 as stated: Reconcile comes before Filter, each once and none
\* revisited: once a record has been filtered no record is reconciled.
C25_ReconcileThenFilter ==
    \A i \in Invocations :
        \A m, n \in DOMAIN calls[i].steps :
            (calls[i].steps[m] = "filter" /\ calls[i].steps[n] = "reconcile") => n < m

\* The order of the steps, the only error exit, and the log at the return.
PipelineOrder ==
    \A i \in Invocations :
        /\ IsPrefix(calls[i].steps, FullLog(calls[i].pkgs))
        /\ calls[i].ret.returned <=> calls[i].pc = "done"
        /\ calls[i].pc = "done" =>
              IF calls[i].err
              THEN calls[i].ret.err /\ calls[i].steps = <<"invoke">>
              ELSE ~calls[i].ret.err /\ calls[i].steps = FullLog(calls[i].pkgs)

\* C25 as amended: an invocation passes through Invoke, Count, one pass
\* over the engine's records in their order, in which a synthetic record is
\* skipped where the pass meets it and any other is reconciled (there is no
\* Filter step after the reconciliation), and Sort, in this order and never
\* back; the only error exit is from Invoke, and once Invoke succeeded the
\* invocation reaches the end of Sort and returns a result.
C25_PipelineOrderAndTermination ==
    /\ []PipelineOrder
    /\ \A i \in Invocations :
          (calls[i].pc = "count") ~>
              (calls[i].pc = "done" /\ calls[i].ret.returned /\ ~calls[i].ret.err)

\* An invocation skipped a synthetic record and reconciled a real one
\* after it, and returned.
C25_Witness ==
    \E i \in Invocations :
        /\ calls[i].pc = "done"
        /\ calls[i].steps = <<"invoke", "count", "filter", "reconcile", "collect", "sort">>
        /\ Len(calls[i].ret.pkgs) = 1

\* Reconciling every identifier first, synthetic ones included, and
\* discarding the synthetic survivors afterwards: the entries this leaves.
ReconciledThenFiltered(s) ==
    LET survivors == {s[FirstLargestOf(s, p)] : p \in {s[i].PkgPath : i \in DOMAIN s}}
    IN  {r \in survivors : ~HasSuffix(r.PkgPath, TestSuffix)}

\* The slice lists the records of the set, each once.
SameEntries(s, entries) ==
    /\ Len(s) = Cardinality(entries)
    /\ {s[j] : j \in DOMAIN s} = entries

\* C26: deduplicatePackages, which skips ".test" records inside the
\* reconciliation pass, returns for every engine result the entries that
\* reconciling all identifiers first and filtering afterwards leaves.
C26_FilterInsideEqualsFilterAfter ==
    (pc \in {"sort", "done"} /\ ~err) =>
        /\ SameEntries(deduplicated, ReconciledThenFiltered(pkgs))
        /\ \A d \in Deduplicate(pkgs) : SameEntries(d, ReconciledThenFiltered(pkgs))

\* Two variants of a test binary, which the other order would reconcile
\* before discarding the survivor.
C26_Witness ==
    /\ Succeeded
    /\ Len(pkgs) = 2
    /\ pkgs[1].PkgPath = PathADotTest /\ pkgs[1].GoFiles = {1}
    /\ pkgs[2].PkgPath = PathADotTest /\ pkgs[2].GoFiles = {1, 2}
    /\ ret.pkgs = << >>
    /\ ~ret.pkgsNil

\* C27: the identifiers of Load's output are those of the engine's result
\* without the ones ending in ".test", and every entry of the output is one
\* of the engine's records, unchanged.
C27_OutputIsEngineRecords ==
    Succeeded =>
        /\ {ret.pkgs[j].PkgPath : j \in DOMAIN ret.pkgs} = RealIdentifiers
        /\ \A j \in DOMAIN ret.pkgs : \E i \in DOMAIN pkgs : ret.pkgs[j] = pkgs[i]

\* Two variants with different files: one of them is returned, not their
\* union.
C27_Witness ==
    /\ Succeeded
    /\ Len(pkgs) = 2
    /\ pkgs[1].PkgPath = PathB /\ pkgs[1].GoFiles = {2}
    /\ pkgs[2].PkgPath = PathB /\ pkgs[2].GoFiles = {1}
    /\ Len(ret.pkgs) = 1
    /\ ret.pkgs[1].GoFiles = {2}

\* The indices of the engine's records that are not in Load's output.
DiscardedIndices ==
    DOMAIN pkgs \ {FirstLargestOf(pkgs, p) : p \in RealIdentifiers}

\* C29: the failure count Load returns is at least the tally over the
\* packages it returns, and larger when a discarded variant or a filtered
\* synthetic record carried errors.
C29_CountAtLeastTallyOfOutput ==
    Succeeded =>
        /\ ret.errorCount >= PrintErrors(ret.pkgs)
        /\ (\E i \in DiscardedIndices : pkgs[i].Errors > 0) =>
              ret.errorCount > PrintErrors(ret.pkgs)

\* The errors of a production file are in both variants of a package: they
\* are counted once per variant.
C29_Witness ==
    /\ Succeeded
    /\ Len(pkgs) = 2
    /\ pkgs[1].PkgPath = PathA /\ pkgs[1].GoFiles = {1} /\ pkgs[1].Errors = MaxErrs
    /\ pkgs[2].PkgPath = PathA /\ pkgs[2].GoFiles = {1, 2} /\ pkgs[2].Errors = MaxErrs
    /\ ret.errorCount = 2 * MaxErrs
    /\ PrintErrors(ret.pkgs) = MaxErrs

\* C30: Load's output does not depend on the order in which the map seen
\* is iterated: every order, and every outcome of the unstable sort, gives
\* the same final sequence.
C30_MapOrderIrrelevant ==
    (pc \in {"sort", "done"} /\ ~err) =>
        /\ \A d \in Deduplicate(pkgs) : SortSlice(d) = SortSlice(deduplicated)
        /\ Cardinality(SortSlice(deduplicated)) = 1
        /\ pc = "done" => SortSlice(deduplicated) = {ret.pkgs}

\* The map held two packages and was iterated in descending order.
C30_Witness ==
    /\ pc = "sort"
    /\ Len(deduplicated) = 2
    /\ StrLess(deduplicated[2].PkgPath, deduplicated[1].PkgPath)
    /\ Cardinality(Deduplicate(pkgs)) = 2

====
